---- MODULE Spec2Model ----
(***************************************************************************)
(* Model of the transaction parser of the ledger repository               *)
(* (src/modules/parser.py) and of the debugging driver that runs it        *)
(* (src/debug_parser.py).                                                  *)
(*                                                                         *)
(* A text is a sequence of tokens.  A token is one character of the input  *)
(* (a digit, the decimal point, a blank, one Chinese character) or one     *)
(* Latin word that the program only ever looks at as a whole ("yuan",      *)
(* "dollar", a keyword of the lexicon).  The module is written in ASCII,   *)
(* so the non-ASCII characters and strings of the source are spelled:      *)
(*                                                                         *)
(*   "zh_yuan" 元   "zh_kuai" 块   "zh_yen" ￥   "zh_qian" 钱              *)
(*   "zh_wu" 五     "zh_bai" 百    "zh_hua" 花   "zh_le" 了                *)
(*   "zh_mai" 买    "zh_shou" 收   "zh_zhuan" 转 "zh_tui" 退               *)
(*   "zh_zhi" 支    "zh_ka" 咖     "zh_fan" 饭   "zh_xing" 星              *)
(*   "other expense" 其他费用      "other income" 其他收入                 *)
(*   "cash" 现金                   "bank deposit" 银行存款                 *)
(*   "pending confirmation" 待确认                                         *)
(*   "input is empty" 输入为空     "parse ok" 解析成功                     *)
(*   "missing info" 缺少信息       "no valid entry" 无法生成有效的会计分录 *)
(*                                                                         *)
(* Python's None is "None" for the optional strings (action, payment       *)
(* method, category) and the empty tuple for the optional amount and the   *)
(* optional data of a result; a present amount v or data d is <<v>>, <<d>>.*)
(* An amount is an exact decimal fraction [num, exp], the number           *)
(* num / 10^exp with exp as small as can be, so that float("5.50") =       *)
(* float("5.5") # float("5.05").                                           *)
(***************************************************************************)
EXTENDS Integers, Sequences, FiniteSets

VARIABLES text, keywords, categories, pc, result,
          action, amount, payment_method, category, chinese_amount

vars == <<text, keywords, categories, pc, result,
          action, amount, payment_method, category, chinese_amount>>

\* The longest text of the general input families.
MaxLen == 4

None == "None"

(***************************************************************************)
(* Characters and strings.                                                 *)
(***************************************************************************)
DigitChars == <<"0", "1", "2", "3", "4", "5", "6", "7", "8", "9">>

DigitVal(t) == CHOOSE d \in 0..9 : DigitChars[d + 1] = t

\* \s of the regular expressions, str.strip()
IsSpace(t) == t \in {" ", "\t"}

IsDigit(t) == t \in {DigitChars[i] : i \in 1..10}

\* str.lower() of one token: the Latin words that occur in upper or mixed case
Lower(t) ==
    CASE t \in {"YUAN", "Yuan"} -> "yuan"
      [] t \in {"DOLLAR", "Dollar"} -> "dollar"
      [] t \in {"BUY", "Buy"} -> "buy"
      [] t \in {"CAFE", "Cafe"} -> "cafe"
      [] OTHER -> t

lower(s) == [i \in 1..Len(s) |-> Lower(s[i])]

\* Python's `word in text` on strings
Contains(word, s) ==
    \E i \in 0..(Len(s) - Len(word)) : SubSeq(s, i + 1, i + Len(word)) = word

\* str.find: the first (1-based) position of word in s, which contains it
find(s, word) ==
    CHOOSE i \in 1..(Len(s) - Len(word) + 1) :
        /\ SubSeq(s, i, i + Len(word) - 1) = word
        /\ \A j \in 1..(i - 1) : SubSeq(s, j, j + Len(word) - 1) # word

RECURSIVE lstrip(_)
lstrip(s) == IF s # <<>> /\ IsSpace(Head(s)) THEN lstrip(Tail(s)) ELSE s

RECURSIVE rstrip(_)
rstrip(s) ==
    IF s # <<>> /\ IsSpace(s[Len(s)]) THEN rstrip(SubSeq(s, 1, Len(s) - 1)) ELSE s

strip(s) == rstrip(lstrip(s))

\* re.sub(r'\s+', ' ', s)
RECURSIVE CollapseSpaces(_)
CollapseSpaces(s) ==
    IF s = <<>> THEN <<>>
    ELSE IF IsSpace(Head(s)) THEN <<" ">> \o CollapseSpaces(lstrip(s))
    ELSE <<Head(s)>> \o CollapseSpaces(Tail(s))

_preprocess_text(s) == CollapseSpaces(strip(s))

(***************************************************************************)
(* The amount patterns.  Each is a group (digits, an optional point, more  *)
(* digits) followed by optional blanks and a marker; the last has no       *)
(* marker.  The group is greedy, and the only match of a pattern at a      *)
(* position is the greedy one: a shorter group ends before a digit or      *)
(* before the point, and neither is a blank or a marker.                   *)
(***************************************************************************)
CurrencyMarkers == {"zh_yuan", "zh_kuai", "zh_yen", "$"}

patterns == <<"currency", "yuan", "dollar", "bare">>

RECURSIVE DigitRunEnd(_, _)
DigitRunEnd(s, i) ==
    IF i <= Len(s) /\ IsDigit(s[i]) THEN DigitRunEnd(s, i + 1) ELSE i - 1

\* The end of the number group that starts at i; 0 if none starts there.
GroupEnd(s, i) ==
    IF i > Len(s) \/ ~IsDigit(s[i]) THEN 0
    ELSE LET e1 == DigitRunEnd(s, i)
         IN  IF e1 < Len(s) /\ s[e1 + 1] = "." THEN DigitRunEnd(s, e1 + 2) ELSE e1

RECURSIVE SkipSpaces(_, _)
SkipSpaces(s, j) ==
    IF j <= Len(s) /\ IsSpace(s[j]) THEN SkipSpaces(s, j + 1) ELSE j

\* The end of the match of pattern p whose group ends at e; 0 if the marker
\* does not follow.  re.IGNORECASE folds the case of the Latin markers.
MarkerEnd(p, s, e) ==
    LET j == SkipSpaces(s, e + 1)
    IN  CASE p = "currency" ->
               IF j <= Len(s) /\ s[j] \in CurrencyMarkers THEN j ELSE 0
          [] p = "yuan" ->
               IF j <= Len(s) /\ Lower(s[j]) = "yuan" THEN j ELSE 0
          [] p = "dollar" ->
               IF j <= Len(s) /\ Lower(s[j]) = "dollar" THEN j ELSE 0
          [] OTHER -> e

\* The end of the match of pattern p that starts at i; 0 if none.
MatchEnd(p, s, i) ==
    LET e == GroupEnd(s, i) IN IF e = 0 THEN 0 ELSE MarkerEnd(p, s, e)

\* re.findall(pattern, text): the groups of the non-overlapping matches,
\* scanning from position i.
RECURSIVE findall(_, _, _)
findall(p, s, i) ==
    IF i > Len(s) THEN <<>>
    ELSE IF MatchEnd(p, s, i) # 0
         THEN <<SubSeq(s, i, GroupEnd(s, i))>> \o findall(p, s, MatchEnd(p, s, i) + 1)
         ELSE findall(p, s, i + 1)

RECURSIVE DigitsValue(_)
DigitsValue(s) ==
    IF s = <<>> THEN 0
    ELSE 10 * DigitsValue(SubSeq(s, 1, Len(s) - 1)) + DigitVal(s[Len(s)])

\* The number num / 10^exp in lowest terms of ten
RECURSIVE Decimal(_, _)
Decimal(num, exp) ==
    IF exp > 0 /\ num % 10 = 0 THEN Decimal(num \div 10, exp - 1)
    ELSE [num |-> num, exp |-> exp]

\* float() of a group "ddd", "ddd." or "ddd.ddd"
float(g) ==
    LET dots == {i \in 1..Len(g) : g[i] = "."}
        d    == IF dots = {} THEN Len(g) + 1 ELSE CHOOSE i \in dots : TRUE
        frac == SubSeq(g, d + 1, Len(g))
    IN  Decimal(DigitsValue(SubSeq(g, 1, d - 1) \o frac), Len(frac))

\* str() of an integer of the numeral table
RECURSIVE NatToStr(_)
NatToStr(n) ==
    IF n < 10 THEN <<DigitChars[n + 1]>>
    ELSE NatToStr(n \div 10) \o <<DigitChars[(n % 10) + 1]>>

str(v) == IF v < 0 THEN <<"-">> \o NatToStr(-v) ELSE NatToStr(v)

(***************************************************************************)
(* The lexicon (self.keywords, self.categories), as json.load returns it:  *)
(* a dict keeps the order of the file, so each table is a sequence.        *)
(*   keywords.actions, keywords.payment_methods:                           *)
(*       <<[name, chinese: <<word>>, english: <<word>>]>>                  *)
(*   keywords.number_words (amount_patterns.number_words.chinese):         *)
(*       <<[word, value]>>                                                 *)
(*   categories (expense_categories):                                      *)
(*       <<[name, keywords: [chinese, english], merchants: [chinese,       *)
(*          english]]>>                                                    *)
(***************************************************************************)

\* Truth value of an optional string: None and "" are false
Truthy(x) == x # None /\ x # ""

\* Truth value of an optional float: None and 0.0 are false
TruthyAmount(m) == m # <<>> /\ m[1].num # 0

\* One entry of the action or payment table matches the text: a Chinese word
\* occurs in it, or an English word does when both are lowercased.
AliasMatches(words_dict, s) ==
    \/ \E k \in 1..Len(words_dict.chinese) : Contains(words_dict.chinese[k], s)
    \/ \E k \in 1..Len(words_dict.english) :
           Contains(lower(words_dict.english[k]), lower(s))

\* The loop over a table's items: the index of the first matching entry from
\* k on, 0 if none matches.
RECURSIVE FirstMatching(_, _, _)
FirstMatching(table, s, k) ==
    IF k > Len(table) THEN 0
    ELSE IF AliasMatches(table[k], s) THEN k
    ELSE FirstMatching(table, s, k + 1)

CurrencyIndicators == <<"zh_kuai", "zh_yuan", "zh_yen", "$", "yuan", "dollar">>

\* A faulty variant of the action classifier: the currency indicators are
\* looked for before the keywords of the lexicon.
_parse_action_IndicatorFirst(s) ==
    LET k == FirstMatching(keywords.actions, s, 1)
    IN  IF \E i \in 1..Len(CurrencyIndicators) :
               Contains(<<CurrencyIndicators[i]>>, s)
        THEN "expense"
        ELSE IF k # 0 THEN keywords.actions[k].name ELSE None

\* A faulty variant of the action classifier: expense is the default
\* whether or not a currency indicator is present.
_parse_action_DefaultExpense(s) ==
    LET k == FirstMatching(keywords.actions, s, 1)
    IN  IF k # 0 THEN keywords.actions[k].name ELSE "expense"

_parse_action(s) ==
    LET k == FirstMatching(keywords.actions, s, 1)
    IN  IF k # 0 THEN keywords.actions[k].name
        ELSE IF \E i \in 1..Len(CurrencyIndicators) :
                    Contains(<<CurrencyIndicators[i]>>, s)
             THEN "expense"
             ELSE None

_parse_payment_method(s) ==
    LET k == FirstMatching(keywords.payment_methods, s, 1)
    IN  IF k # 0 THEN keywords.payment_methods[k].name ELSE None

NumeralUnits == {"zh_yuan", "zh_kuai", "zh_yen"}

\* The number of characters of a token: a Latin word has several
Width(t) ==
    CASE Lower(t) \in {"yuan", "cafe"} -> 4
      [] Lower(t) = "dollar" -> 6
      [] Lower(t) = "buy" -> 3
      [] OTHER -> 1

\* The tokens of s that begin within its first n characters
RECURSIVE TakeChars(_, _)
TakeChars(s, n) ==
    IF s = <<>> \/ n <= 0 THEN <<>>
    ELSE <<Head(s)>> \o TakeChars(Tail(s), n - Width(Head(s)))

\* The three characters after the first occurrence of word in s, as the
\* tokens that begin among them (a unit is one character)
WindowAfter(s, word) ==
    LET idx == find(s, word)
    IN  TakeChars(SubSeq(s, idx + Len(word), Len(s)), 3)

\* A numeral word of the table qualifies: it occurs in the text, the digits
\* of its value do not, and a unit follows its first occurrence closely.
NumeralQualifies(entry, s) ==
    /\ Contains(entry.word, s)
    /\ ~Contains(str(entry.value), s)
    /\ \E u \in NumeralUnits : Contains(<<u>>, WindowAfter(s, entry.word))

RECURSIVE FirstNumeral(_, _, _)
FirstNumeral(table, s, k) ==
    IF k > Len(table) THEN 0
    ELSE IF NumeralQualifies(table[k], s) THEN k
    ELSE FirstNumeral(table, s, k + 1)

_parse_chinese_number(s) ==
    LET k == FirstNumeral(keywords.number_words, s, 1)
    IN  IF k # 0 THEN <<Decimal(keywords.number_words[k].value, 0)>> ELSE <<>>

\* The loop over the patterns: the first one with a match gives matches[0].
RECURSIVE TryPatterns(_, _)
TryPatterns(s, k) ==
    IF k > Len(patterns) THEN _parse_chinese_number(s)
    ELSE LET matches == findall(patterns[k], s, 1)
         IN  IF matches # <<>> THEN <<float(matches[1])>>
             ELSE TryPatterns(s, k + 1)

\* A faulty variant of the amount extractor: the leftmost number of the
\* text, whatever follows it.
_parse_amount_BareFirst(s) ==
    LET matches == findall("bare", s, 1)
    IN  IF matches # <<>> THEN <<float(matches[1])>> ELSE _parse_chinese_number(s)

_parse_amount(s) == TryPatterns(s, 1)

\* How many words of the list occur in the text (a word listed twice counts
\* twice); fold = TRUE lowercases both sides.
CountMatches(words, s, fold) ==
    Cardinality({k \in 1..Len(words) :
        IF fold THEN Contains(lower(words[k]), lower(s)) ELSE Contains(words[k], s)})

CategoryScore(config, s) ==
    2 * (CountMatches(config.keywords.chinese, s, FALSE)
           + CountMatches(config.keywords.english, s, TRUE))
      + 3 * (CountMatches(config.merchants.chinese, s, FALSE)
               + CountMatches(config.merchants.english, s, TRUE))

\* The loop over the categories from k on, with the best so far.
RECURSIVE BestCategory(_, _, _, _)
BestCategory(s, k, best_match, max_score) ==
    IF k > Len(categories) THEN best_match
    ELSE LET score == CategoryScore(categories[k], s)
         IN  IF score > max_score
             THEN BestCategory(s, k + 1, categories[k].name, score)
             ELSE BestCategory(s, k + 1, best_match, max_score)

\* A faulty variant of the category classifier: a later category with the
\* same score replaces the best so far (>= for >).
RECURSIVE LastBestCategory(_, _, _, _)
LastBestCategory(s, k, best_match, max_score) ==
    IF k > Len(categories) THEN best_match
    ELSE LET score == CategoryScore(categories[k], s)
         IN  IF score >= max_score /\ score > 0
             THEN LastBestCategory(s, k + 1, categories[k].name, score)
             ELSE LastBestCategory(s, k + 1, best_match, max_score)

_parse_category_LastWins(s) == LastBestCategory(s, 1, None, 0)

_parse_category(s) == BestCategory(s, 1, None, 0)

\* A faulty variant of the entry generator: the income rule with the sides
\* of the expense rule (the category on the debit side).
_generate_accounting_entry_IncomeAsExpense(act, amt, pm, cat) ==
    CASE act = "expense" ->
           <<[debit  |-> IF Truthy(cat) THEN cat ELSE "other expense",
              credit |-> IF Truthy(pm) THEN pm ELSE "cash"]>>
      [] act = "income" ->
           <<[debit  |-> IF Truthy(cat) THEN cat ELSE "other income",
              credit |-> IF Truthy(pm) THEN pm ELSE "bank deposit"]>>
      [] act = "transfer" ->
           <<[debit |-> "pending confirmation", credit |-> "pending confirmation"]>>
      [] OTHER -> <<>>

\* The entry, or <<>> for None.  The amount is a parameter the code never reads.
_generate_accounting_entry(act, amt, pm, cat) ==
    CASE act = "expense" ->
           <<[debit  |-> IF Truthy(cat) THEN cat ELSE "other expense",
              credit |-> IF Truthy(pm) THEN pm ELSE "cash"]>>
      [] act = "income" ->
           <<[debit  |-> IF Truthy(pm) THEN pm ELSE "bank deposit",
              credit |-> IF Truthy(cat) THEN cat ELSE "other income"]>>
      [] act = "transfer" ->
           <<[debit |-> "pending confirmation", credit |-> "pending confirmation"]>>
      [] OTHER -> <<>>

Min(a, b) == IF a <= b THEN a ELSE b

\* A faulty variant of the scorer: the weights of the payment method and
\* of the category exchanged.
_calculate_confidence_WeightsExchanged(s, act, amt, pm, cat) ==
    Min((IF Truthy(act) THEN 3 ELSE 0)
          + (IF TruthyAmount(amt) THEN 4 ELSE 0)
          + (IF Truthy(pm) THEN 1 ELSE 0)
          + (IF Truthy(cat) THEN 2 ELSE 0),
        10)

\* The confidence in tenths: 0.3, 0.4, 0.2 and 0.1 are 3, 4, 2 and 1.
_calculate_confidence(s, act, amt, pm, cat) ==
    Min((IF Truthy(act) THEN 3 ELSE 0)
          + (IF TruthyAmount(amt) THEN 4 ELSE 0)
          + (IF Truthy(pm) THEN 2 ELSE 0)
          + (IF Truthy(cat) THEN 1 ELSE 0),
        10)

_error_result(message) ==
    [success |-> FALSE, data |-> <<>>, message |-> message, missing_info |-> <<>>]

\* The message is "missing info: " and the missing names joined by ", ".
_partial_result(s, act, amt, pm, cat, missing_info) ==
    [success      |-> FALSE,
     data         |-> <<[action |-> act, amount |-> amt, payment_method |-> pm,
                         category |-> cat, description |-> s]>>,
     message      |-> <<"missing info">> \o missing_info,
     missing_info |-> missing_info]

\* parse() on a lexicon of the shape above raises nothing, so the handler
\* of its try statement is not reached.
parse(raw) ==
    IF strip(raw) = <<>> THEN _error_result(<<"input is empty">>)
    ELSE
      LET s   == _preprocess_text(raw)
          act == _parse_action(s)
          amt == _parse_amount(s)
          pm  == _parse_payment_method(s)
          cat == _parse_category(s)
          missing_info ==
              (IF ~Truthy(act) THEN <<"action">> ELSE <<>>)
                \o (IF ~TruthyAmount(amt) THEN <<"amount">> ELSE <<>>)
      IN  IF missing_info # <<>>
          THEN _partial_result(s, act, amt, pm, cat, missing_info)
          ELSE
            LET accounting_entry == _generate_accounting_entry(act, amt, pm, cat)
            IN  IF accounting_entry = <<>>
                THEN _error_result(<<"no valid entry">>)
                ELSE [success |-> TRUE,
                      data |-> <<[action         |-> act,
                                  amount         |-> amt,
                                  description    |-> s,
                                  category       |-> IF Truthy(cat) THEN cat
                                                     ELSE "other expense",
                                  payment_method |-> pm,
                                  debit_account  |-> accounting_entry[1].debit,
                                  credit_account |-> accounting_entry[1].credit,
                                  confidence     |->
                                      _calculate_confidence(s, act, amt, pm, cat)]>>,
                      message |-> <<"parse ok">>,
                      missing_info |-> <<>>]

(***************************************************************************)
(* The debugging driver: for a text, debug_parse(text) and then            *)
(* test_step_by_step(text), which calls each extractor on the raw text.    *)
(* Every call constructs a parser from the same configuration files, so    *)
(* the lexicon is one value throughout.  The validator that debug_parse    *)
(* runs on a successful record only prints; debug_parse returns the        *)
(* parser's result.                                                        *)
(***************************************************************************)
DebugParse ==
    /\ pc = "debug_parse"
    /\ result' = parse(text)
    /\ pc' = "test_step_by_step"
    /\ UNCHANGED <<text, keywords, categories,
                   action, amount, payment_method, category, chinese_amount>>

TestStepByStep ==
    /\ pc = "test_step_by_step"
    /\ action' = _parse_action(text)
    /\ amount' = _parse_amount(text)
    /\ payment_method' = _parse_payment_method(text)
    /\ category' = _parse_category(text)
    /\ chinese_amount' = _parse_chinese_number(text)
    /\ pc' = "done"
    /\ UNCHANGED <<text, keywords, categories, result>>

Next == DebugParse \/ TestStepByStep

(***************************************************************************)
(* Inputs.  The texts of a family are all the token sequences up to a      *)
(* length over the family's alphabet; the lexicons are configurations the  *)
(* files can hold.                                                         *)
(***************************************************************************)
Texts(alphabet, n) == UNION {[1..k -> alphabet] : k \in 0..n}

Entry(name, chinese, english) ==
    [name |-> name, chinese |-> chinese, english |-> english]

Config(name, kc, ke, mc, me) ==
    [name |-> name,
     keywords  |-> [chinese |-> kc, english |-> ke],
     merchants |-> [chinese |-> mc, english |-> me]]

Numeral(word, value) == [word |-> word, value |-> value]

\* "refund" is an action name the entry generator does not know.
StdActions ==
    <<Entry("expense", <<<<"zh_mai">>>>, <<<<"Buy">>>>),
      Entry("income", <<<<"zh_shou">>>>, <<>>),
      Entry("transfer", <<<<"zh_zhuan">>>>, <<>>),
      Entry("refund", <<<<"zh_tui">>>>, <<>>)>>

StdPayments == <<Entry("alipay", <<<<"zh_zhi">>>>, <<>>)>>

StdCategories ==
    <<Config("coffee", <<<<"zh_ka">>>>, <<<<"Cafe">>>>, <<<<"zh_xing">>>>, <<>>)>>

StdKeywords ==
    [actions |-> StdActions, payment_methods |-> StdPayments,
     number_words |-> <<Numeral(<<"zh_wu">>, 5)>>]

InitWith(texts, kws, cats) ==
    /\ text \in texts
    /\ keywords \in kws
    /\ categories \in cats
    /\ pc = "debug_parse"
    /\ result = _error_result(<<>>)
    /\ action = None
    /\ amount = <<>>
    /\ payment_method = None
    /\ category = None
    /\ chinese_amount = <<>>

\* Whole sentences: action words, amounts, a payment alias, a category word.
ParseAlphabet ==
    {"zh_mai", "zh_shou", "zh_zhuan", "zh_tui", "5", "0", "zh_yuan", "zh_zhi",
     "zh_ka", " "}

Init == InitWith(Texts(ParseAlphabet, MaxLen), {StdKeywords}, {StdCategories})

Spec == Init /\ [][Next]_vars

\* Amounts: digits, the point, blanks, the markers of the patterns in both
\* cases, a numeral word; and one token longer over digits, blank and marker.
AmountAlphabet ==
    {"5", "0", ".", " ", "zh_yuan", "yuan", "YUAN", "dollar", "zh_wu"}

SpacedAlphabet == {"5", "0", " ", "zh_yuan"}

InitAmount ==
    InitWith(Texts(AmountAlphabet, MaxLen) \cup Texts(SpacedAlphabet, MaxLen + 1),
             {StdKeywords}, {StdCategories})

SpecAmount == InitAmount /\ [][Next]_vars

\* Actions: keywords of one and of two characters, an English keyword in
\* another case than the lexicon's, currency indicators in both cases.
ActionAlphabet ==
    {"zh_mai", "zh_le", "zh_shou", "zh_tui", "BUY", "zh_yuan", "yuan", "YUAN"}

ActionTables ==
    LET expense == Entry("expense", <<<<"zh_mai", "zh_le">>>>, <<<<"Buy">>>>)
        income  == Entry("income", <<<<"zh_shou">>, <<"zh_mai">>>>, <<>>)
        refund  == Entry("refund", <<<<"zh_tui">>>>, <<<<"yuan">>>>)
    IN  {<<expense, income, refund>>, <<refund, income, expense>>, <<>>}

InitAction ==
    InitWith(Texts(ActionAlphabet, MaxLen),
             {[StdKeywords EXCEPT !.actions = t] : t \in ActionTables},
             {StdCategories})

SpecAction == InitAction /\ [][Next]_vars

\* Categories: keywords and merchants, some shared between categories,
\* declared in either order.
CategoryAlphabet == {"zh_fan", "zh_ka", "zh_xing", "CAFE", "zh_le"}

CategoryTables ==
    LET dining == Config("dining", <<<<"zh_fan">>, <<"zh_ka">>>>, <<<<"Cafe">>>>,
                         <<>>, <<>>)
        coffee == Config("coffee", <<<<"zh_ka">>>>, <<>>, <<<<"zh_xing">>>>,
                         <<<<"cafe">>>>)
        snack  == Config("snack", <<<<"zh_fan", "zh_le">>>>, <<>>, <<>>, <<>>)
    IN  {<<dining, coffee>>, <<coffee, dining>>, <<snack, coffee, dining>>, <<>>}

InitCategory ==
    InitWith(Texts(CategoryAlphabet, MaxLen), {StdKeywords}, CategoryTables)

SpecCategory == InitCategory /\ [][Next]_vars

\* Chinese numerals: "spent five hundred kuai" (debug_parser.py's test
\* text) and the short texts over its numerals, units and a digit, with
\* numeral tables that hold the entry five hundred -> 500.
FiveHundredKuai == <<"zh_hua", "zh_le", "zh_wu", "zh_bai", "zh_kuai", "zh_qian">>

NumeralAlphabet == {"zh_wu", "zh_bai", "zh_kuai", "zh_qian", "5"}

NumeralTables ==
    LET wubai == Numeral(<<"zh_wu", "zh_bai">>, 500)
    IN  {<<wubai>>,
         <<wubai, Numeral(<<"zh_wu">>, 5), Numeral(<<"zh_bai">>, 100)>>,
         <<Numeral(<<"zh_wu">>, 5), Numeral(<<"zh_bai">>, 100), wubai>>,
         <<Numeral(<<"zh_bai">>, 100), wubai>>}

InitChinese ==
    InitWith(Texts(NumeralAlphabet, MaxLen) \cup {FiveHundredKuai},
             {[StdKeywords EXCEPT !.number_words = t] : t \in NumeralTables},
             {StdCategories})

SpecChinese == InitChinese /\ [][Next]_vars

\* Numeral tables whose values are any numbers the file can hold: positive,
\* zero, negative.
SignedTables ==
    {<<Numeral(<<"zh_wu">>, v), Numeral(<<"zh_bai">>, w)>> : v, w \in {5, 0, -5}}

InitSigned ==
    InitWith(Texts(NumeralAlphabet, MaxLen),
             {[StdKeywords EXCEPT !.number_words = t] : t \in SignedTables},
             {StdCategories})

SpecSigned == InitSigned /\ [][Next]_vars

(***************************************************************************)
(* Properties.  Parsed: result holds parse(text).  Stepped: the five       *)
(* extractor results of test_step_by_step are those of the raw text.       *)
(***************************************************************************)
Parsed == pc # "debug_parse"

Stepped == pc = "done"

IsSuccess(r) == r.success

IsPartial(r) == ~r.success /\ r.data # <<>>

IsFailure(r) == ~r.success /\ r.data = <<>>

NonEmptyInput == strip(text) # <<>>

\* What parse() extracts from: the normalized text
norm == _preprocess_text(text)

\* A keyword of some action of the lexicon occurs in s (English ones
\* compared in lower case).
HasActionKeyword(s) ==
    \E k \in 1..Len(keywords.actions) :
        \/ \E w \in 1..Len(keywords.actions[k].chinese) :
               Contains(keywords.actions[k].chinese[w], s)
        \/ \E w \in 1..Len(keywords.actions[k].english) :
               Contains(lower(keywords.actions[k].english[w]), lower(s))

HasCurrencyIndicator(s) ==
    \E i \in 1..Len(s) : s[i] \in {"zh_yuan", "zh_kuai", "zh_yen", "$", "yuan", "dollar"}

\* C1 (as claimed): for an input that is non-empty after trimming, the
\* outcome is Partial exactly when the action or the amount is unresolved
\* (the extractor returned None); missing_info then lists exactly the
\* unresolved ones, "action" first, and data carries the four extracted
\* fields and the normalized text.
C1_CompletenessGate ==
    Parsed /\ NonEmptyInput =>
        LET act == _parse_action(norm)
            amt == _parse_amount(norm)
            missing == (IF act = None THEN <<"action">> ELSE <<>>)
                         \o (IF amt = <<>> THEN <<"amount">> ELSE <<>>)
        IN  /\ IsPartial(result) <=> (act = None \/ amt = <<>>)
            /\ IsPartial(result) =>
                 /\ result.missing_info = missing
                 /\ result.data[1] =
                      [action |-> act, amount |-> amt,
                       payment_method |-> _parse_payment_method(norm),
                       category |-> _parse_category(norm),
                       description |-> norm]

\* C2 (as claimed): an input, empty ones included, with no action keyword
\* and no currency indicator leaves the action unresolved and gives Partial,
\* or Failure if the amount is unresolved too, and lists "action" as missing.
C2_Original ==
    Parsed /\ ~HasActionKeyword(text) /\ ~HasCurrencyIndicator(text) =>
        /\ _parse_action(norm) = None
        /\ IF _parse_amount(norm) = <<>> THEN IsFailure(result) ELSE IsPartial(result)
        /\ \E i \in 1..Len(result.missing_info) : result.missing_info[i] = "action"

\* C2 (amended): an input that is non-empty after trimming, with no action
\* keyword and no currency indicator, leaves the action unresolved and gives
\* Partial, also when the amount is unresolved too; "action" is the first
\* missing field, followed by "amount" when no amount was extracted.  An
\* empty or whitespace-only input gives Failure with no data and no missing
\* fields.
C2_NoKeywordNoCurrency ==
    Parsed /\ ~HasActionKeyword(text) /\ ~HasCurrencyIndicator(text) =>
        IF NonEmptyInput
        THEN /\ IsPartial(result)
             /\ result.data[1].action = None
             /\ result.missing_info # <<>>
             /\ result.missing_info[1] = "action"
             /\ _parse_amount(norm) = <<>> =>
                    result.missing_info = <<"action", "amount">>
        ELSE /\ IsFailure(result)
             /\ result.missing_info = <<>>
             /\ result.message = <<"input is empty">>

\* C2's case: a non-empty input without keyword, indicator or amount has
\* been parsed, and the outcome is Partial.
C2_Witness ==
    /\ Parsed /\ NonEmptyInput
    /\ ~HasActionKeyword(text) /\ ~HasCurrencyIndicator(text)
    /\ _parse_amount(norm) = <<>>
    /\ IsPartial(result)

\* C3 (as claimed): in every Success record the action is expense, income
\* or transfer and the amount is a positive number; an action name of the
\* lexicon outside the three ends in the "no valid entry" Failure.
C3_SuccessRecord ==
    /\ Parsed /\ IsSuccess(result) =>
         /\ result.data[1].action \in {"expense", "income", "transfer"}
         /\ result.data[1].amount # <<>>
         /\ result.data[1].amount[1].num > 0
    /\ Parsed /\ NonEmptyInput
         /\ _parse_action(norm) \notin {None, "expense", "income", "transfer"}
         /\ TruthyAmount(_parse_amount(norm)) =>
         /\ IsFailure(result)
         /\ result.message = <<"no valid entry">>

\* C10 (as claimed): in every Success record the category is the account on
\* the category side of the entry: the debit account of an expense, the
\* credit account of an income.
C10_CategoryIsEntrySide ==
    Parsed /\ IsSuccess(result) =>
        /\ result.data[1].action = "expense" =>
               result.data[1].category = result.data[1].debit_account
        /\ result.data[1].action = "income" =>
               result.data[1].category = result.data[1].credit_account

\* Amounts, for the properties that range over them
SomeAmounts == {<<>>, <<Decimal(0, 0)>>, <<Decimal(5, 0)>>, <<Decimal(55, 1)>>}

\* C4: the confidence of a Success record is, in tenths, 3 if the action is
\* resolved + 4 if the amount is + 2 if the payment method is + 1 if the
\* category is, and lies in 0..10; and for the four fields extracted from
\* any text, making one resolved field unresolved never increases the
\* confidence the scorer gives them.
C4_Confidence ==
    LET act == _parse_action(norm)
        amt == _parse_amount(norm)
        pm  == _parse_payment_method(norm)
        cat == _parse_category(norm)
        conf == _calculate_confidence(norm, act, amt, pm, cat)
    IN  /\ Parsed /\ IsSuccess(result) =>
             /\ result.data[1].confidence =
                   (IF act # None THEN 3 ELSE 0) + (IF amt # <<>> THEN 4 ELSE 0)
                     + (IF pm # None THEN 2 ELSE 0) + (IF cat # None THEN 1 ELSE 0)
             /\ result.data[1].confidence \in 0..10
        /\ Parsed =>
             /\ _calculate_confidence(norm, None, amt, pm, cat) <= conf
             /\ _calculate_confidence(norm, act, <<>>, pm, cat) <= conf
             /\ _calculate_confidence(norm, act, amt, None, cat) <= conf
             /\ _calculate_confidence(norm, act, amt, pm, None) <= conf

\* C4's case: a Success record with the payment method resolved and the
\* category not, so that the two smaller weights tell apart.
C4_Witness ==
    /\ Parsed /\ IsSuccess(result)
    /\ result.data[1].payment_method # None
    /\ _parse_category(norm) = None
    /\ result.data[1].confidence = 9

\* The pair the table of the entry rules gives
EntryOf(act, pm, cat) ==
    CASE act = "expense" ->
           [debit  |-> IF cat # None THEN cat ELSE "other expense",
            credit |-> IF pm # None THEN pm ELSE "cash"]
      [] act = "income" ->
           [debit  |-> IF pm # None THEN pm ELSE "bank deposit",
            credit |-> IF cat # None THEN cat ELSE "other income"]
      [] act = "transfer" ->
           [debit |-> "pending confirmation", credit |-> "pending confirmation"]

\* C5: whenever the extracted action is expense, income or transfer, the
\* entry generator gives, for it and the extracted category and payment
\* method (resolved or not), the pair of the table whatever the amount is;
\* and the debit and credit accounts of a Success record are that pair.
C5_AccountingEntry ==
    LET act == _parse_action(norm)
        pm  == _parse_payment_method(norm)
        cat == _parse_category(norm)
    IN  /\ Parsed /\ act \in {"expense", "income", "transfer"} =>
             \A m \in SomeAmounts :
                 _generate_accounting_entry(act, m, pm, cat) = <<EntryOf(act, pm, cat)>>
        /\ Parsed /\ IsSuccess(result) =>
             /\ result.data[1].debit_account = EntryOf(act, pm, cat).debit
             /\ result.data[1].credit_account = EntryOf(act, pm, cat).credit

\* C5's case: a Success record of an income with a resolved category and a
\* resolved payment method.
C5_Witness ==
    /\ Parsed /\ IsSuccess(result)
    /\ result.data[1].action = "income"
    /\ result.data[1].debit_account = "alipay"
    /\ result.data[1].credit_account = "coffee"

\* The score of category k as the claim defines it
ScoreOf(k, s) ==
    LET config == categories[k]
        Hits(words, fold) ==
            Cardinality({w \in 1..Len(words) :
                IF fold THEN Contains(lower(words[w]), lower(s))
                ELSE Contains(words[w], s)})
    IN  2 * (Hits(config.keywords.chinese, FALSE) + Hits(config.keywords.english, TRUE))
          + 3 * (Hits(config.merchants.chinese, FALSE)
                   + Hits(config.merchants.english, TRUE))

\* C6: the category is the earliest declared one among those of maximal
\* score, if that score is above 0, and unresolved if every category scores
\* 0; so of two categories, one scoring 2 (a keyword) and one scoring 3 (a
\* merchant), the one scoring 3 wins in either order of declaration.
C6_Category ==
    Stepped =>
        LET n == Len(categories)
        IN  /\ IF \A k \in 1..n : ScoreOf(k, text) = 0
               THEN category = None
               ELSE \E k \in 1..n :
                      /\ category = categories[k].name
                      /\ \A j \in 1..n : ScoreOf(j, text) <= ScoreOf(k, text)
                      /\ \A j \in 1..(k - 1) : ScoreOf(j, text) < ScoreOf(k, text)
            /\ \A i, j \in 1..n :
                   n = 2 /\ ScoreOf(i, text) = 2 /\ ScoreOf(j, text) = 3 =>
                       category = categories[j].name

\* C6's case: two categories share the maximal score, which is above 0, and
\* the earlier declared one is the result.
C6_Witness ==
    /\ Stepped
    /\ \E i, j \in 1..Len(categories) :
         /\ i < j
         /\ ScoreOf(i, text) = ScoreOf(j, text)
         /\ ScoreOf(i, text) > 0
         /\ \A k \in 1..Len(categories) : ScoreOf(k, text) <= ScoreOf(i, text)
         /\ category = categories[i].name

\* Some keyword of action k occurs in s
KeywordHit(k, s) ==
    \/ \E w \in 1..Len(keywords.actions[k].chinese) :
           Contains(keywords.actions[k].chinese[w], s)
    \/ \E w \in 1..Len(keywords.actions[k].english) :
           Contains(lower(keywords.actions[k].english[w]), lower(s))

\* C9: the action is the first action in declaration order with a keyword
\* occurring in the text; with no such action it is expense if a currency
\* indicator is present and unresolved otherwise.
C9_Action ==
    Stepped =>
        LET hits == {k \in 1..Len(keywords.actions) : KeywordHit(k, text)}
        IN  IF hits # {}
            THEN \E k \in hits :
                   /\ \A j \in hits : k <= j
                   /\ action = keywords.actions[k].name
            ELSE IF HasCurrencyIndicator(text) THEN action = "expense"
            ELSE action = None

\* C9's case: the keyword of a later declared action stands in the text
\* before every keyword of the earlier declared action that is the result,
\* a currency indicator is present, and the result is not the default.
C9_Witness ==
    /\ Stepped
    /\ HasCurrencyIndicator(text)
    /\ action \notin {None, "expense"}
    /\ \E k1, k2 \in 1..Len(keywords.actions) :
         /\ k1 < k2
         /\ action = keywords.actions[k1].name
         /\ KeywordHit(k1, text)
         /\ \E w2 \in 1..Len(keywords.actions[k2].chinese) :
              /\ Contains(keywords.actions[k2].chinese[w2], text)
              /\ \A w1 \in 1..Len(keywords.actions[k1].chinese) :
                   Contains(keywords.actions[k1].chinese[w1], text) =>
                       find(text, keywords.actions[k2].chinese[w2])
                         < find(text, keywords.actions[k1].chinese[w1])
              /\ \A w1 \in 1..Len(keywords.actions[k1].english) :
                   ~Contains(lower(keywords.actions[k1].english[w1]), lower(text))

\* The positions where a match of pattern p starts
MatchStarts(p, s) == {i \in 1..Len(s) : MatchEnd(p, s, i) # 0}

\* The positions where digits start that a currency marker follows with
\* nothing in between
ImmediateCurrencyStarts(s) ==
    {i \in 1..Len(s) :
        /\ GroupEnd(s, i) # 0
        /\ GroupEnd(s, i) < Len(s)
        /\ s[GroupEnd(s, i) + 1] \in CurrencyMarkers}

\* The number that starts at the least position of a non-empty set of starts
LeftmostNumber(starts, s) ==
    LET i == CHOOSE x \in starts : \A y \in starts : x <= y
    IN  <<float(SubSeq(s, i, GroupEnd(s, i)))>>

\* The amount by priority: the leftmost match of the first of the four
\* patterns (given by their sets of starts) that has a match, and the
\* Chinese-numeral interpretation if none has.
AmountByPriority(a, b, c, d, s) ==
    IF a # {} THEN LeftmostNumber(a, s)
    ELSE IF b # {} THEN LeftmostNumber(b, s)
    ELSE IF c # {} THEN LeftmostNumber(c, s)
    ELSE IF d # {} THEN LeftmostNumber(d, s)
    ELSE _parse_chinese_number(s)

HasDigit(s) == \E i \in 1..Len(s) : IsDigit(s[i])

\* C8 (as claimed): with pattern (a) digits immediately followed by a
\* currency marker, (b) digits followed by "yuan", (c) digits followed by
\* "dollar", (d) bare digits, the amount is the leftmost match of the first
\* pattern that matches; the Chinese numerals are consulted only for a text
\* without any digit.
C8_Original ==
    Stepped =>
        /\ amount = AmountByPriority(ImmediateCurrencyStarts(text),
                                     MatchStarts("yuan", text),
                                     MatchStarts("dollar", text),
                                     MatchStarts("bare", text), text)
        /\ HasDigit(text) <=> MatchStarts("bare", text) # {}
        /\ ~HasDigit(text) => amount = chinese_amount

\* C8 (amended): the same with pattern (a) digits followed, after optional
\* whitespace, by a currency marker.
C8_AmountPriority ==
    Stepped =>
        /\ amount = AmountByPriority(MatchStarts("currency", text),
                                     MatchStarts("yuan", text),
                                     MatchStarts("dollar", text),
                                     MatchStarts("bare", text), text)
        /\ HasDigit(text) <=> MatchStarts("bare", text) # {}
        /\ ~HasDigit(text) => amount = chinese_amount

\* C8's case: a bare number stands at the start of the text, the leftmost
\* number with a currency marker stands further right, with a blank before
\* its marker, and is another number; the amount is the latter.
C8_Witness ==
    /\ Stepped
    /\ 1 \in MatchStarts("bare", text)
    /\ 1 \notin MatchStarts("currency", text)
    /\ \E j \in MatchStarts("currency", text) :
         /\ \A i \in MatchStarts("currency", text) : j <= i
         /\ IsSpace(text[GroupEnd(text, j) + 1])
         /\ amount = <<float(SubSeq(text, j, GroupEnd(text, j)))>>
         /\ amount # <<float(SubSeq(text, 1, GroupEnd(text, 1)))>>

====
